---- MODULE Spec2Model ----
(***************************************************************************)
(* Fixed-point accumulation, potential kernels, DeviceBuffer and the       *)
(* Langevin integrator of timemachine.                                     *)
(*                                                                         *)
(* Four specifications share this module:                                  *)
(*   Spec    one round of potential kernels (k_periodic_torsion,           *)
(*           k_log_flat_bottom_bond) on one stream, thread by thread;      *)
(*   SpecFP  fixed_point_overflow and the fixed-point decoders;            *)
(*   SpecDB  DeviceBuffer construction, transfer and destruction;          *)
(*   SpecLI  two LangevinIntegrator instances stepping on their streams.   *)
(*                                                                         *)
(* Integer widths are scaled: NarrowBits stands for the 64 bits of         *)
(* long long / unsigned long long, and __int128 is twice as wide.  Real    *)
(* numbers are represented by the integer they encode to, in units of      *)
(* 1/FIXED_EXPONENT; the closed-form floating-point expressions of the     *)
(* kernels are replaced by integer-valued evaluations of the inputs.       *)
(***************************************************************************)
EXTENDS Integers, Sequences, FiniteSets, TLC

(***************************************************************************)
(* Bounds                                                                  *)
(***************************************************************************)
\* bits of long long / unsigned long long in the model (64 in the build)
NarrowBits == 3
\* atoms of the system (N)
NAtoms == 4
\* terms of each bound potential (T torsions, B bonds)
NTerms == 2
\* distinct inputs (positions, parameters, box) a round may be run with
NInputs == 2

\* DeviceBuffer objects
NBuffers == 2
\* largest length a DeviceBuffer is constructed with
MaxLen == 2

\* step_fwd calls made on one integrator
MaxSteps == 2
\* seeds an integrator may be constructed with
NSeeds == 2

\* spatial dimensions: const int D = 3 / the loops for (d = 0; d < 3; d++)
D == 3

(***************************************************************************)
(* Integer types                                                           *)
(***************************************************************************)
WideBits == 2 * NarrowBits
NarrowMod == 2 ^ NarrowBits
WideMod == 2 ^ WideBits
LLONG_MAX == 2 ^ (NarrowBits - 1) - 1
LLONG_MIN == 0 - 2 ^ (NarrowBits - 1)
INT128_MAX == 2 ^ (WideBits - 1) - 1
INT128_MIN == 0 - 2 ^ (WideBits - 1)
ULL == 0 .. (NarrowMod - 1)
Int128 == INT128_MIN .. INT128_MAX

\* static_cast<unsigned long long>(long long)
ToULL(x) == x % NarrowMod
\* static_cast<long long>(v) of an unsigned long long or an __int128
ToLL(v) == LET m == v % NarrowMod IN IF m > LLONG_MAX THEN m - NarrowMod ELSE m
\* conversion to __int128
ToInt128(x) == LET m == x % WideMod IN IF m > INT128_MAX THEN m - WideMod ELSE m

\* atomicAdd(unsigned long long *, unsigned long long): wraps modulo 2^64
atomicAdd(old, val) == (old + val) % NarrowMod

\* FLOAT_TO_FIXED_BONDED: the scaled, rounded value as unsigned long long
FLOAT_TO_FIXED_BONDED(r) == ToULL(r)
\* FLOAT_TO_FIXED_ENERGY: the scaled, rounded value as __int128
FLOAT_TO_FIXED_ENERGY(r) == ToInt128(r)

\* fixed_point_overflow with the bounds themselves counted as in range
fixed_point_overflow_strict(val) == val > LLONG_MAX \/ val < LLONG_MIN

\* fixed_point_overflow(__int128 val): max = LLONG_MAX, min = LLONG_MIN
fixed_point_overflow(val) == val >= LLONG_MAX \/ val <= LLONG_MIN

\* FIXED_TO_FLOAT<RealType>(unsigned long long v): the real
\* static_cast<long long>(v) / FIXED_EXPONENT, held as its numerator
FIXED_TO_FLOAT(v) == ToLL(v)
\* FIXED_ENERGY_TO_FLOAT<RealType>(__int128 v): the same cast and division
FIXED_ENERGY_TO_FLOAT(v) == ToLL(v)

(***************************************************************************)
(* Variables                                                               *)
(***************************************************************************)
VARIABLES
    \* ---- Spec: one round of potential kernels
    inp,        \* the positions/parameters/box of the round (an input id)
    order,      \* dispatch order of the bound potentials on the stream
    caller,     \* "step_fwd" or "evaluate": who issued the round
    want,       \* which output pointers are non-null
    zeroed,     \* whether the buffers were zeroed before the round
    du_dx,      \* unsigned long long [N * D]
    du_dp,      \* unsigned long long [P]
    u,          \* unsigned long long [N]   (k_periodic_torsion's u)
    u128,       \* __int128 [B]             (k_log_flat_bottom_bond's u)
    cur,        \* position in order of the kernel now running
    tpc,        \* per thread of the running kernel: operations done
    \* ---- SpecFP
    fp_val,     \* the __int128 accumulator under test
    fp_ovf,     \* what fixed_point_overflow returned
    fp_dec,     \* what FIXED_ENERGY_TO_FLOAT returned (numerator)
    fp_done,    \* which of "check", "decode" have been called
    \* ---- SpecDB
    db,         \* per DeviceBuffer object: state, length, elem, size, data
    heap,       \* accelerator allocations, by pointer: [bytes, live, content]
    nmalloc,    \* per object: cudaSafeMalloc calls made for it
    nfree,      \* per object: cudaFree calls made for it
    host,       \* the host array used by copy_from / copy_to
    \* ---- SpecLI
    li,         \* per integrator: constructor-derived state and buffers
    x_t,        \* per integrator: positions  [N * D]
    v_t,        \* per integrator: velocities [N * D]
    stream,     \* per integrator: operations issued and not yet executed
    nsteps,     \* per integrator: step_fwd calls made
    ndone,      \* per integrator: update kernels executed
    d_idxs,     \* the caller's active mask: [null, idx], idx an index array
    args        \* the constructor arguments

kvars == <<inp, order, caller, want, zeroed, du_dx, du_dp, u, u128, cur, tpc>>
fvars == <<fp_val, fp_ovf, fp_dec, fp_done>>
bvars == <<db, heap, nmalloc, nfree, host>>
ivars == <<li, x_t, v_t, stream, nsteps, ndone, d_idxs, args>>
vars == <<kvars, fvars, bvars, ivars>>


(***************************************************************************)
(* Idle values of the state a specification does not use                   *)
(***************************************************************************)
IdleF == fp_val = 0 /\ fp_ovf = FALSE /\ fp_dec = 0 /\ fp_done = {}
IdleB == db = <<>> /\ heap = <<>> /\ nmalloc = <<>> /\ nfree = <<>> /\ host = 0
IdleI ==
    /\ li = <<>>
    /\ x_t = <<>>
    /\ v_t = <<>>
    /\ stream = <<>>
    /\ nsteps = <<>>
    /\ ndone = <<>>
    /\ d_idxs = <<>>
    /\ args = <<>>

(***************************************************************************)
(* Spec: one round of potential kernels                                    *)
(***************************************************************************)
\* the bound potentials of the round: one torsion potential, two bond
\* potentials (two instances of the same variant share the energy buffer)
Kinds == <<"torsion", "bond", "bond">>
Pots == 1 .. Len(Kinds)
Orders == {o \in [Pots -> Pots] : \A p \in Pots : \E n \in Pots : o[n] = p}
IdentityOrder == [n \in Pots |-> n]

\* threads of one launch: one more than there are terms, so that the
\* t_idx >= T / b_idx >= B guard is exercised
Threads == 0 .. NTerms
NParams == NTerms * 3

\* torsion_idxs[t_idx * 4 + 0..3]: every torsion has atom 0 as its i
torsion_idxs(t) == <<0, 1 + (t % 3), 1 + ((t + 1) % 3), 1 + ((t + 2) % 3)>>
\* bond_idxs[b_idx * 2 + 0..1]
bond_idxs(b) == <<b % NAtoms, (b + 1) % NAtoms>>

\* one memory operation of a thread
Op(buf, idx, val, how) == [buf |-> buf, idx |-> idx, val |-> val, how |-> how]

\* d_angle_dR0..3[d] of torsion t (slot 0..3 = atoms i, j, k, l)
d_angle_dR(slot, d) ==
    CASE slot = 0 -> d + 1
      [] slot = 1 -> 0 - (d + 2)
      [] slot = 2 -> d + 2
      [] slot = 3 -> 0 - (d + 1)
\* prefactor = kt * sin(period * angle - phase) * period
torsion_prefactor(i, p, t) == i + p + t
\* du_dkt, du_dphase, du_dperiod
torsion_du_dp(i, p, t, k) == i + t + k
\* kt * (1 + cos(period * angle - phase)): non-negative, and as large as
\* the narrow range allows for the last input
torsion_energy(i, p, t) == IF i = NInputs THEN LLONG_MAX ELSE i + t

\* prefactor * du_dsrc_real of bond b in dimension d
bond_du_dsrc(i, p, b, d) == (i + p + b) * (d + 1)
\* du_dk, du_drmin, du_drmax times prefactor
bond_du_dp(i, p, b, k) == i * (k + 1) + p
\* u_real = -stable_log_1_exp_neg(beta * nrg) / beta
bond_energy(i, p, b) == i + 2 * p + b

\* the output pointers of a launch: TRUE for non-null
Wants == [du_dx : BOOLEAN, du_dp : BOOLEAN, u : BOOLEAN]

SeqIf(c, s) == IF c THEN s ELSE <<>>

\* k_periodic_torsion with the du_dp block nested in the du_dx block
k_periodic_torsion_nested(w, i, p, t) ==
    IF t >= NTerms THEN <<>>
    ELSE LET idx == torsion_idxs(t)
         IN  SeqIf(w.du_dx,
                   [n \in 1 .. (4 * 3) |->
                       LET d == (n - 1) \div 4
                           s == (n - 1) % 4
                       IN  Op("du_dx", idx[s + 1] * D + d,
                              FLOAT_TO_FIXED_BONDED(
                                  d_angle_dR(s, d) * torsion_prefactor(i, p, t)),
                              "atomicAdd")]
                   \o SeqIf(w.du_dp,
                        [k \in 1 .. 3 |->
                            Op("du_dp", t * 3 + (k - 1),
                               FLOAT_TO_FIXED_BONDED(torsion_du_dp(i, p, t, k - 1)),
                               "atomicAdd")]))
             \o SeqIf(w.u,
                  <<Op("u", idx[1],
                       FLOAT_TO_FIXED_BONDED(torsion_energy(i, p, t)),
                       "atomicAdd")>>)

\* k_periodic_torsion<RealType, D>: the memory operations of thread t of
\* potential p, in program order, for the output pointers w
k_periodic_torsion(w, i, p, t) ==
    IF t >= NTerms THEN <<>>
    ELSE LET idx == torsion_idxs(t)
         IN  SeqIf(w.du_dx,
                   [n \in 1 .. (4 * 3) |->
                       LET d == (n - 1) \div 4
                           s == (n - 1) % 4
                       IN  Op("du_dx", idx[s + 1] * D + d,
                              FLOAT_TO_FIXED_BONDED(
                                  d_angle_dR(s, d) * torsion_prefactor(i, p, t)),
                              "atomicAdd")])
             \o SeqIf(w.du_dp,
                  [k \in 1 .. 3 |->
                      Op("du_dp", t * 3 + (k - 1),
                         FLOAT_TO_FIXED_BONDED(torsion_du_dp(i, p, t, k - 1)),
                         "atomicAdd")])
             \o SeqIf(w.u,
                  <<Op("u", idx[1],
                       FLOAT_TO_FIXED_BONDED(torsion_energy(i, p, t)),
                       "atomicAdd")>>)

\* k_log_flat_bottom_bond<RealType>: the memory operations of thread b
k_log_flat_bottom_bond(w, i, p, b) ==
    IF b >= NTerms THEN <<>>
    ELSE LET idx == bond_idxs(b)
         IN  SeqIf(w.u,
                   <<Op("u128", b, FLOAT_TO_FIXED_ENERGY(bond_energy(i, p, b)),
                        "store")>>)
             \o SeqIf(w.du_dp,
                  [k \in 1 .. 3 |->
                      Op("du_dp", b * 3 + (k - 1),
                         FLOAT_TO_FIXED_BONDED(bond_du_dp(i, p, b, k - 1)),
                         "atomicAdd")])
             \o SeqIf(w.du_dx,
                  [n \in 1 .. (2 * 3) |->
                      LET d == (n - 1) \div 2
                          s == (n - 1) % 2
                          r == bond_du_dsrc(i, p, b, d)
                      IN  Op("du_dx", idx[s + 1] * 3 + d,
                             FLOAT_TO_FIXED_BONDED(IF s = 0 THEN r ELSE 0 - r),
                             "atomicAdd")])

\* the kernel a bound potential launches
Program(w, i, p, t) ==
    IF Kinds[p] = "torsion" THEN k_periodic_torsion(w, i, p, t)
    ELSE k_log_flat_bottom_bond(w, i, p, t)

\* the programs of all launches, evaluated once
WantNo(w) ==
    (IF w.du_dx THEN 1 ELSE 0) + (IF w.du_dp THEN 2 ELSE 0) + (IF w.u THEN 4 ELSE 0)
WantOf(n) ==
    [du_dx |-> n % 2 = 1, du_dp |-> (n \div 2) % 2 = 1, u |-> (n \div 4) % 2 = 1]
ProgramTable ==
    [n \in 0 .. 7 |-> [i \in 1 .. NInputs |-> [p \in Pots |-> [t \in Threads |->
        Program(WantOf(n), i, p, t)]]]]
ProgramOf(w, i, p, t) == ProgramTable[WantNo(w)][i][p][t]

\* the effect of one memory operation on the element it addresses
ApplyElem(old, op) ==
    IF op.how = "store" THEN op.val
    ELSE IF op.buf = "u128" THEN ToInt128(old + op.val)
    ELSE atomicAdd(old, op.val)

\* the effect of one memory operation on the buffers
Apply(B, op) == [B EXCEPT ![op.buf][op.idx] = ApplyElem(@, op)]

Bufs == [du_dx |-> du_dx, du_dp |-> du_dp, u |-> u, u128 |-> u128]

\* buffer contents before the round: zero, or whatever was left there
Before(z) ==
    [du_dx |-> [e \in 0 .. (NAtoms * D - 1) |-> IF z THEN 0 ELSE (e + 1) % NarrowMod],
     du_dp |-> [e \in 0 .. (NParams - 1) |-> IF z THEN 0 ELSE (e + 2) % NarrowMod],
     u     |-> [e \in 0 .. (NAtoms - 1) |-> IF z THEN 0 ELSE (e + 3) % NarrowMod],
     u128  |-> [e \in 0 .. (NTerms - 1) |-> IF z THEN 0 ELSE e + 1]]

\* LangevinIntegrator::step_fwd asks for the forces only
StepFwdWant == [du_dx |-> TRUE, du_dp |-> FALSE, u |-> FALSE]
AllWanted == [du_dx |-> TRUE, du_dp |-> TRUE, u |-> TRUE]

InitK ==
    /\ inp \in 1 .. NInputs
    /\ order \in Orders
    /\ caller \in {"step_fwd", "evaluate"}
    /\ IF caller = "step_fwd"
       THEN want = StepFwdWant /\ zeroed = TRUE
       ELSE want \in Wants /\ zeroed \in BOOLEAN
    /\ du_dx = Before(zeroed).du_dx
    /\ du_dp = Before(zeroed).du_dp
    /\ u = Before(zeroed).u
    /\ u128 = Before(zeroed).u128
    /\ cur = 1
    /\ tpc = [t \in Threads |-> 0]

IdleK ==
    /\ inp = 1
    /\ order = IdentityOrder
    /\ caller = "none"
    /\ want = AllWanted
    /\ zeroed = TRUE
    /\ du_dx = <<>>
    /\ du_dp = <<>>
    /\ u = <<>>
    /\ u128 = <<>>
    /\ cur = 0
    /\ tpc = <<>>

RoundDone == cur = Len(Kinds) + 1

\* thread t of the running kernel performs its next memory operation
ThreadStep(t) ==
    /\ UNCHANGED <<fvars, bvars, ivars>>
    /\ cur \in Pots
    /\ LET prog == ProgramOf(want, inp, order[cur], t)
       IN  /\ tpc[t] < Len(prog)
           /\ LET B == Apply(Bufs, prog[tpc[t] + 1])
              IN  /\ du_dx' = B.du_dx
                  /\ du_dp' = B.du_dp
                  /\ u' = B.u
                  /\ u128' = B.u128
    /\ tpc' = [tpc EXCEPT ![t] = @ + 1]
    /\ UNCHANGED <<inp, order, caller, want, zeroed, cur>>

\* every thread of the running kernel has returned: the stream starts the
\* next launch
KernelRetire ==
    /\ UNCHANGED <<fvars, bvars, ivars>>
    /\ cur \in Pots
    /\ \A t \in Threads : tpc[t] = Len(ProgramOf(want, inp, order[cur], t))
    /\ cur' = cur + 1
    /\ tpc' = [t \in Threads |-> 0]
    /\ UNCHANGED <<inp, order, caller, want, zeroed, du_dx, du_dp, u, u128>>

NextK ==
    \/ \E t \in Threads : ThreadStep(t)
    \/ KernelRetire


(***************************************************************************)
(* Expected results of a round                                             *)
(***************************************************************************)
RECURSIVE ElemUpTo(_, _, _, _, _)
\* element e of buffer buf, holding b0 at first, after the first k of ops
ElemUpTo(b0, ops, buf, e, k) ==
    IF k = 0 THEN b0
    ELSE IF ops[k].buf = buf /\ ops[k].idx = e
         THEN ApplyElem(IF ops[k].how = "store" THEN 0
                        ELSE ElemUpTo(b0, ops, buf, e, k - 1), ops[k])
         ELSE ElemUpTo(b0, ops, buf, e, k - 1)
RunBuf(b, ops, buf) == [e \in DOMAIN b |-> ElemUpTo(b[e], ops, buf, e, Len(ops))]
\* the buffers after the operations ops, performed one after the other
RunOps(B, ops) ==
    [du_dx |-> RunBuf(B.du_dx, ops, "du_dx"),
     du_dp |-> RunBuf(B.du_dp, ops, "du_dp"),
     u     |-> RunBuf(B.u, ops, "u"),
     u128  |-> RunBuf(B.u128, ops, "u128")]

RECURSIVE Cat(_, _)
\* f[1] \o ... \o f[n]
Cat(f, n) == IF n = 0 THEN <<>> ELSE Cat(f, n - 1) \o f[n]

\* the operations of one launch, thread after thread
KernelOps(w, i, p) == Cat([n \in 1 .. (NTerms + 1) |-> ProgramOf(w, i, p, n - 1)], NTerms + 1)
\* the operations of a round dispatched in the order ord
RoundOps(w, i, ord) == Cat([n \in Pots |-> KernelOps(w, i, ord[n])], Len(Kinds))

BoolNo(z) == IF z THEN 1 ELSE 0
FinalTable ==
    [n \in 0 .. 7 |-> [i \in 1 .. NInputs |-> [o \in Orders |-> [z \in 0 .. 1 |->
        RunOps(Before(z = 1), RoundOps(WantOf(n), i, o))]]]]
\* the buffers after a round run kernel by kernel, thread by thread
Final(w, i, ord, z) == FinalTable[WantNo(w)][i][ord][BoolNo(z)]

\* the operations performed so far in the round
ExecutedOps ==
    Cat([n \in Pots |->
            IF n < cur THEN KernelOps(want, inp, order[n])
            ELSE IF n = cur
            THEN Cat([m \in 1 .. (NTerms + 1) |->
                        SubSeq(ProgramOf(want, inp, order[n], m - 1), 1, tpc[m - 1])],
                     NTerms + 1)
            ELSE <<>>],
        Len(Kinds))

\* an operation taken as the addition of its value
AsAdd(op) == [op EXCEPT !.how = "atomicAdd"]
AsAdds(ops) == [n \in 1 .. Len(ops) |-> AsAdd(ops[n])]

RECURSIVE SumUpTo(_, _, _, _)
SumUpTo(ops, buf, e, k) ==
    IF k = 0 THEN 0
    ELSE (IF ops[k].buf = buf /\ ops[k].idx = e
          THEN (IF buf = "u128" THEN ops[k].val ELSE ToLL(ops[k].val))
          ELSE 0) + SumUpTo(ops, buf, e, k - 1)
\* the exact (unbounded) sum of the values the operations ops send to
\* element e of buffer buf, each value read as a signed number
SumAt(ops, buf, e) == SumUpTo(ops, buf, e, Len(ops))

\* the output pointer a buffer is passed as
PtrOf(buf) == IF buf = "u128" THEN "u" ELSE buf
BufNames == {"du_dx", "du_dp", "u", "u128"}

(***************************************************************************)
(* Claims on Spec                                                          *)
(***************************************************************************)
\* C1: every element of every output buffer holds, at any time, its value
\* before the round plus the contributions made to it so far (modulo the
\* width): no potential assigns, initializes or clears an element.
C1_OnlyAdds == Bufs = RunOps(Before(zeroed), AsAdds(ExecutedOps))

\* C2: a round run against zeroed buffers ends with the same integers in
\* every buffer whatever the dispatch order and the thread interleaving:
\* the ones the round leaves when dispatched in the listed order.
C2_OrderIndependent ==
    (RoundDone /\ zeroed) => Bufs = Final(want, inp, IdentityOrder, TRUE)

\* C3: a null output pointer makes the kernels leave that quantity alone,
\* and each non-null buffer ends as it would with all three pointers
\* non-null; step_fwd passes du_dx only.
C3_NullSkips ==
    /\ caller = "step_fwd" => want = StepFwdWant
    /\ \A b \in BufNames : ~want[PtrOf(b)] => Bufs[b] = Before(zeroed)[b]
    /\ RoundDone =>
          \A b \in BufNames :
              want[PtrOf(b)] => Bufs[b] = Final(AllWanted, inp, order, zeroed)[b]

\* C3 witness: a round issued by step_fwd has run and wrote forces only
C3_Witness ==
    /\ RoundDone
    /\ caller = "step_fwd"
    /\ du_dx # Before(zeroed).du_dx
    /\ du_dp = Before(zeroed).du_dp
    /\ u = Before(zeroed).u
    /\ u128 = Before(zeroed).u128

\* C6: after a round against zeroed buffers, an energy element whose exact
\* sum of contributions lies outside the long long range is reported by
\* fixed_point_overflow on the accumulator as the decoder reads it.
C6_OverflowDetectable ==
    (RoundDone /\ zeroed /\ want.u) =>
        /\ \A a \in 0 .. (NAtoms - 1) :
               LET s == SumAt(RoundOps(want, inp, order), "u", a)
               IN  (s > LLONG_MAX \/ s < LLONG_MIN)
                       => fixed_point_overflow(ToInt128(ToLL(u[a])))
        /\ \A b \in 0 .. (NTerms - 1) :
               LET s == SumAt(RoundOps(want, inp, order), "u128", b)
               IN  (s > LLONG_MAX \/ s < LLONG_MIN)
                       => fixed_point_overflow(u128[b])

Init == InitK /\ IdleF /\ IdleB /\ IdleI
Next == NextK
Spec == Init /\ [][Next]_vars


(***************************************************************************)
(* SpecFP: fixed_point_overflow and the energy decoder                     *)
(***************************************************************************)
InitF ==
    /\ fp_val \in Int128
    /\ fp_ovf = FALSE
    /\ fp_dec = 0
    /\ fp_done = {}

\* the caller checks the accumulator
CheckOverflow ==
    /\ "check" \notin fp_done
    /\ fp_ovf' = fixed_point_overflow(fp_val)
    /\ fp_done' = fp_done \cup {"check"}
    /\ UNCHANGED <<fp_val, fp_dec>>
    /\ UNCHANGED <<kvars, bvars, ivars>>

\* the caller decodes the accumulator
DecodeEnergy ==
    /\ "decode" \notin fp_done
    /\ fp_dec' = FIXED_ENERGY_TO_FLOAT(fp_val)
    /\ fp_done' = fp_done \cup {"decode"}
    /\ UNCHANGED <<fp_val, fp_ovf>>
    /\ UNCHANGED <<kvars, bvars, ivars>>

NextF ==
    \/ CheckOverflow
    \/ DecodeEnergy

\* C4: fixed_point_overflow returns true exactly for the values outside
\* [LLONG_MIN, LLONG_MAX].
C4_OverflowIffOutside ==
    "check" \in fp_done => (fp_ovf <=> (fp_val > LLONG_MAX \/ fp_val < LLONG_MIN))

InitFP == InitF /\ IdleK /\ IdleB /\ IdleI
SpecFP == InitFP /\ [][NextF]_vars


(***************************************************************************)
(* SpecDB: DeviceBuffer<T>                                                 *)
(***************************************************************************)
Buffers == 1 .. NBuffers
\* sizeof(T) of the instantiations: char; int, float, unsigned int;
\* double, unsigned long long; __int128
ElemSizes == {1, 4, 8, 16}
\* what a buffer may hold (all of its bytes taken as one value)
Contents == {0, 1}

NoBuffer == [state |-> "none", length |-> 0, elem |-> 0, size |-> 0, data |-> 0]

\* allocate<T> that calls cudaSafeMalloc before it looks at length
allocate_unchecked(length, elem) ==
    [throws |-> length < 1, mallocs |-> <<length * elem>>]

\* allocate<T>(length): whether it throws, and the cudaSafeMalloc calls
\* (their byte counts) it makes before it returns or throws
allocate(length, elem) ==
    IF length < 1
    THEN [throws |-> TRUE, mallocs |-> <<>>]
    ELSE [throws |-> FALSE, mallocs |-> <<length * elem>>]

InitB ==
    /\ db = [o \in Buffers |-> NoBuffer]
    /\ heap = <<>>
    /\ nmalloc = [o \in Buffers |-> 0]
    /\ nfree = [o \in Buffers |-> 0]
    /\ host \in Contents

\* DeviceBuffer<T>::DeviceBuffer(length): size(length * sizeof(T)),
\* data(allocate<T>(length)); fresh accelerator memory holds anything
Construct(o, length, elem, garbage) ==
    /\ db[o].state = "none"
    /\ LET r == allocate(length, elem)
       IN  /\ heap' = heap \o [n \in 1 .. Len(r.mallocs) |->
                                [bytes |-> r.mallocs[n], live |-> TRUE,
                                 content |-> garbage]]
           /\ nmalloc' = [nmalloc EXCEPT ![o] = @ + Len(r.mallocs)]
           /\ db' = [db EXCEPT ![o] =
                       IF r.throws
                       THEN [state |-> "failed", length |-> length,
                             elem |-> elem, size |-> 0, data |-> 0]
                       ELSE [state |-> "live", length |-> length,
                             elem |-> elem, size |-> length * elem,
                             data |-> Len(heap) + 1]]
    /\ UNCHANGED <<nfree, host>>
    /\ UNCHANGED <<kvars, fvars, ivars>>

\* DeviceBuffer<T>::~DeviceBuffer(): cudaFree(data)
Destroy(o) ==
    /\ db[o].state = "live"
    /\ heap' = [heap EXCEPT ![db[o].data].live = FALSE]
    /\ nfree' = [nfree EXCEPT ![o] = @ + 1]
    /\ db' = [db EXCEPT ![o].state = "destroyed"]
    /\ UNCHANGED <<nmalloc, host>>
    /\ UNCHANGED <<kvars, fvars, ivars>>

\* DeviceBuffer<T>::copy_from(host_buffer): cudaMemcpy of size bytes
copy_from(o, val) ==
    /\ db[o].state = "live"
    /\ heap' = [heap EXCEPT ![db[o].data].content = val]
    /\ UNCHANGED <<db, nmalloc, nfree, host>>
    /\ UNCHANGED <<kvars, fvars, ivars>>

\* DeviceBuffer<T>::copy_to(host_buffer): cudaMemcpy of size bytes
copy_to(o) ==
    /\ db[o].state = "live"
    /\ host' = heap[db[o].data].content
    /\ UNCHANGED <<db, heap, nmalloc, nfree>>
    /\ UNCHANGED <<kvars, fvars, ivars>>

NextB ==
    \/ \E o \in Buffers, length \in 0 .. MaxLen, elem \in ElemSizes, g \in Contents :
          Construct(o, length, elem, g)
    \/ \E o \in Buffers : Destroy(o)
    \/ \E o \in Buffers, val \in Contents : copy_from(o, val)
    \/ \E o \in Buffers : copy_to(o)

\* C9: a construction with length < 1 fails with no allocation made; one
\* with length >= 1 makes exactly one allocation, of length * sizeof(T)
\* bytes, which is live until the destructor and released exactly once by
\* it; nothing else allocates or releases.
C9_OneAllocOneFree ==
    /\ \A o \in Buffers :
          /\ db[o].state = "none" => nmalloc[o] = 0 /\ nfree[o] = 0
          /\ db[o].state = "failed" =>
                db[o].length < 1 /\ nmalloc[o] = 0 /\ nfree[o] = 0
          /\ db[o].state \in {"live", "destroyed"} =>
                /\ db[o].length >= 1
                /\ nmalloc[o] = 1
                /\ db[o].data \in 1 .. Len(heap)
                /\ heap[db[o].data].bytes = db[o].length * db[o].elem
                /\ db[o].size = db[o].length * db[o].elem
                /\ heap[db[o].data].live = (db[o].state = "live")
                /\ nfree[o] = (IF db[o].state = "live" THEN 0 ELSE 1)
    /\ Len(heap) = Cardinality({o \in Buffers : db[o].state \in {"live", "destroyed"}})
    /\ \A o1, o2 \in Buffers :
          (o1 # o2 /\ db[o1].state = "live" /\ db[o2].state \in {"live", "destroyed"})
              => db[o1].data # db[o2].data

\* C9 witness: one construction has failed on its length, another buffer
\* was constructed and destroyed, and the host holds something else than it
C9_Witness ==
    \E o1, o2 \in Buffers :
        /\ db[o1].state = "failed"
        /\ db[o2].state = "destroyed"
        /\ nfree[o2] = 1
        /\ host # heap[db[o2].data].content

InitDB == InitB /\ IdleK /\ IdleF /\ IdleI
SpecDB == InitDB /\ [][NextB]_vars


(***************************************************************************)
(* SpecLI: LangevinIntegrator                                              *)
(***************************************************************************)
Integrators == {1, 2}
Atoms == 0 .. (NAtoms - 1)
Elems == 0 .. (NAtoms * D - 1)
\* the bound potentials bps the caller steps with
Bps == {1, 2}

round_up_even(n) == n + (n % 2)

\* stand-ins for exp(-z) and sqrt(1 - exp(-2 z)), z = friction * dt
ExpNeg(z) == IF z = 0 THEN 2 ELSE 1
CcsAdjustment(z) == IF z = 0 THEN 0 ELSE 1
\* masses[i]
Mass(a) == 1 + (a % 2)

\* ca_ = exp(-friction * dt)
CtorCa(ar) == ExpNeg(ar.friction * ar.dt)
\* h_cbs[i] = dt_ / masses[i]
CtorCbs(ar) == [a \in Atoms |-> ar.dt \div Mass(a)]
\* h_ccs[i] = ccs_adjustment * sqrt(kT / masses[i]), kT = BOLTZ * temperature
CtorCcs(ar) ==
    [a \in Atoms |-> CcsAdjustment(ar.friction * ar.dt) * ((2 * ar.temperature) \div Mass(a))]

\* the generator's k-th normal variate for a seed
Normal(seed, k) == ((seed * 3 + k * 5) % 5) - 2

\* positions and velocities the caller starts both integrators from
X0 == [e \in Elems |-> e % 3]
V0 == [e \in Elems |-> 1]

\* the force-field term bp at positions x, on element e (real, scaled)
BpForce(bp, x, e) == bp + x[e]

NullIdxs == [null |-> TRUE, idx |-> <<>>]
\* index arrays: entry k is k for an active atom and N for a frozen one
MaskFreezing(a) == [null |-> FALSE, idx |-> [k \in Atoms |-> IF k = a THEN NAtoms ELSE k]]
Masks == {NullIdxs, MaskFreezing(0), MaskFreezing(NAtoms - 1)}
\* the atoms an index array leaves out
Frozen(m, a) == ~m.null /\ \A k \in DOMAIN m.idx : m.idx[k] # a

\* LangevinIntegrator::LangevinIntegrator(N, masses, temperature, dt,
\* friction, seed): g is what the freshly allocated d_noise_ and d_du_dx_ hold
Constructed(ar, seed, g) ==
    [ca |-> CtorCa(ar),
     cbs |-> CtorCbs(ar),
     ccs |-> CtorCcs(ar),
     rng |-> [seed |-> seed, offset |-> 0],
     d_noise |-> [e \in 0 .. (round_up_even(NAtoms * D) - 1) |-> g],
     d_du_dx |-> [e \in Elems |-> ToULL(g)]]

InitI ==
    /\ args \in [friction : {0, 1}, temperature : {1}, dt : {2},
                 seed : [Integrators -> 1 .. NSeeds]]
    /\ d_idxs \in Masks
    /\ \E g \in [Integrators -> {0, 1}] :
          li = [i \in Integrators |-> Constructed(args, args.seed[i], g[i])]
    /\ x_t = [i \in Integrators |-> X0]
    /\ v_t = [i \in Integrators |-> V0]
    /\ stream = [i \in Integrators |-> <<>>]
    /\ nsteps = [i \in Integrators |-> 0]
    /\ ndone = [i \in Integrators |-> 0]

\* PotentialRunner::execute_potentials(bps, N, d_x, d_box, d_du_dx, nullptr,
\* nullptr, stream): zero the non-null buffers, dispatch every potential
execute_potentials ==
    <<[op |-> "memset", idxs |-> NullIdxs, bp |-> 0],
      [op |-> "potential", idxs |-> NullIdxs, bp |-> 1],
      [op |-> "potential", idxs |-> NullIdxs, bp |-> 2]>>

\* the update_forward_baoab launch of step_fwd
UpdateLaunch(idxs) == [op |-> "update", idxs |-> idxs, bp |-> 0]

\* step_fwd launching the update before the potentials
StepFwdOps_UpdateFirst(idxs) ==
    <<[op |-> "memset", idxs |-> NullIdxs, bp |-> 0]>>
    \o <<[op |-> "noise", idxs |-> NullIdxs, bp |-> 0]>>
    \o <<UpdateLaunch(idxs)>>
    \o execute_potentials

\* step_fwd launching the update before the noise is drawn
StepFwdOps_UpdateBeforeNoise(idxs) ==
    <<[op |-> "memset", idxs |-> NullIdxs, bp |-> 0]>>
    \o execute_potentials
    \o <<UpdateLaunch(idxs)>>
    \o <<[op |-> "noise", idxs |-> NullIdxs, bp |-> 0]>>

\* step_fwd passing no index array to the update
StepFwdOps_NoMask(idxs) ==
    <<[op |-> "memset", idxs |-> NullIdxs, bp |-> 0]>>
    \o execute_potentials
    \o <<[op |-> "noise", idxs |-> NullIdxs, bp |-> 0]>>
    \o <<UpdateLaunch(NullIdxs)>>

\* LangevinIntegrator::step_fwd: the operations it issues on the stream
StepFwdOps(idxs) ==
    <<[op |-> "memset", idxs |-> NullIdxs, bp |-> 0]>>
    \o execute_potentials
    \o <<[op |-> "noise", idxs |-> NullIdxs, bp |-> 0]>>
    \o <<UpdateLaunch(idxs)>>

\* update_forward_baoab<double>: the new velocities
UpdateV(s, idxs, x, v) ==
    [e \in Elems |->
        IF Frozen(idxs, e \div D) THEN v[e]
        ELSE s.ca * v[e]
             + s.cbs[e \div D] * FIXED_TO_FLOAT(s.d_du_dx[e])
             + s.ccs[e \div D] * s.d_noise[e]]
\* update_forward_baoab<double>: the new positions
UpdateX(ar, idxs, x, vnew) ==
    [e \in Elems |-> IF Frozen(idxs, e \div D) THEN x[e] ELSE x[e] + ar.dt * vnew[e]]

\* LangevinIntegrator::step_fwd(bps, d_x_t, d_v_t, d_box_t, d_idxs, stream)
step_fwd(i) ==
    /\ nsteps[i] < MaxSteps
    /\ stream' = [stream EXCEPT ![i] = @ \o StepFwdOps(d_idxs)]
    /\ nsteps' = [nsteps EXCEPT ![i] = @ + 1]
    /\ UNCHANGED <<li, x_t, v_t, ndone, d_idxs, args>>
    /\ UNCHANGED <<kvars, fvars, bvars>>

\* the stream performs the oldest operation issued on it
StreamExec(i) ==
    /\ stream[i] # <<>>
    /\ stream' = [stream EXCEPT ![i] = Tail(@)]
    /\ LET o == Head(stream[i])
           s == li[i]
       IN  CASE o.op = "memset" ->
                 /\ li' = [li EXCEPT ![i].d_du_dx = [e \in Elems |-> 0]]
                 /\ UNCHANGED <<x_t, v_t, ndone>>
             [] o.op = "potential" ->
                 /\ li' = [li EXCEPT ![i].d_du_dx =
                             [e \in Elems |->
                                 atomicAdd(s.d_du_dx[e],
                                     FLOAT_TO_FIXED_BONDED(BpForce(o.bp, x_t[i], e)))]]
                 /\ UNCHANGED <<x_t, v_t, ndone>>
             [] o.op = "noise" ->
                 /\ li' = [li EXCEPT
                             ![i].d_noise =
                                 [e \in DOMAIN s.d_noise |->
                                     Normal(s.rng.seed, s.rng.offset + e)],
                             ![i].rng.offset = @ + round_up_even(NAtoms * D)]
                 /\ UNCHANGED <<x_t, v_t, ndone>>
             [] o.op = "update" ->
                 /\ LET vnew == UpdateV(s, o.idxs, x_t[i], v_t[i])
                    IN  /\ v_t' = [v_t EXCEPT ![i] = vnew]
                        /\ x_t' = [x_t EXCEPT ![i] = UpdateX(args, o.idxs, x_t[i], vnew)]
                 /\ ndone' = [ndone EXCEPT ![i] = @ + 1]
                 /\ UNCHANGED li
    /\ UNCHANGED <<nsteps, d_idxs, args>>
    /\ UNCHANGED <<kvars, fvars, bvars>>

\* LangevinIntegrator::initialize: empty body
initialize(i) ==
    /\ i \in Integrators
    /\ UNCHANGED vars

\* LangevinIntegrator::finalize: empty body
finalize(i) ==
    /\ i \in Integrators
    /\ UNCHANGED vars

NextI ==
    \/ \E i \in Integrators : step_fwd(i)
    \/ \E i \in Integrators : StreamExec(i)
    \/ \E i \in Integrators : initialize(i)
    \/ \E i \in Integrators : finalize(i)

InitLI == InitI /\ IdleK /\ IdleF /\ IdleB
SpecLI == InitLI /\ [][NextI]_vars


(***************************************************************************)
(* Claims on SpecLI                                                        *)
(***************************************************************************)
\* the operations of one step in the order the claim gives them: zero the
\* force buffer, dispatch the potentials, draw the noise, update
ClaimedStep ==
    <<"memset", "memset", "potential", "potential", "noise", "update">>
\* the sum of the contributions of all bound potentials at positions x
SummedForces(x) ==
    [e \in Elems |-> ToULL(FLOAT_TO_FIXED_BONDED(BpForce(1, x, e))
                           + FLOAT_TO_FIXED_BONDED(BpForce(2, x, e)))]

\* C7: a frozen atom has the same position and velocity after any step of
\* the model as before it, whatever force and noise its elements hold.
C7_FrozenUnchanged ==
    [][\A i \in Integrators, e \in Elems :
          Frozen(d_idxs, e \div D) =>
              x_t'[i][e] = x_t[i][e] /\ v_t'[i][e] = v_t[i][e]]_vars

\* C7 witness: an update has run with a frozen atom that had a force and
\* a noise value on it, and it moved some other atom
C7_Witness ==
    \E i \in Integrators, e \in Elems :
        /\ ndone[i] >= 1
        /\ Frozen(d_idxs, e \div D)
        /\ li[i].d_du_dx[e] # 0
        /\ li[i].d_noise[e] # 0
        /\ li[i].ccs[e \div D] # 0
        /\ x_t[i][e] = X0[e] /\ v_t[i][e] = V0[e]
        /\ x_t[i] # X0

\* C8: the coefficients are those of the constructor and the generator
\* keeps its seed, advancing only by the draws made; two integrators
\* constructed with the same arguments and seed hold the same positions
\* and velocities whenever they have completed the same number of steps.
C8_Deterministic ==
    /\ \A i \in Integrators :
          /\ li[i].ca = CtorCa(args)
          /\ li[i].cbs = CtorCbs(args)
          /\ li[i].ccs = CtorCcs(args)
          /\ li[i].rng.seed = args.seed[i]
          /\ li[i].rng.offset =
                round_up_even(NAtoms * D)
                    * (ndone[i] + (IF stream[i] # <<>> /\ Head(stream[i]).op = "update"
                                   THEN 1 ELSE 0))
    /\ (args.seed[1] = args.seed[2] /\ ndone[1] = ndone[2]) =>
          (x_t[1] = x_t[2] /\ v_t[1] = v_t[2])

\* C8 witness: both integrators, equally seeded and with noise that
\* matters, have completed two steps each
C8_Witness ==
    /\ args.seed[1] = args.seed[2]
    /\ args.friction > 0
    /\ ndone[1] = 2 /\ ndone[2] = 2
    /\ li[1].d_noise # li[1].d_du_dx
    /\ x_t[1] # X0

\* C10: what is on the stream is always the rest of a run of whole steps
\* issued in the claimed order, and the update kernel, when it is next to
\* run, finds in the force buffer exactly the sum of the contributions of
\* all bound potentials at the current positions.
C10_UpdateSeesSum ==
    \A i \in Integrators :
        /\ Len(stream[i]) <= nsteps[i] * Len(ClaimedStep)
        /\ \A n \in 1 .. Len(stream[i]) :
              stream[i][n].op =
                  ClaimedStep[((nsteps[i] * Len(ClaimedStep) - Len(stream[i]) + n - 1)
                               % Len(ClaimedStep)) + 1]
        /\ (stream[i] # <<>> /\ Head(stream[i]).op = "update") =>
              li[i].d_du_dx = SummedForces(x_t[i])

\* C10 witness: the update of a second step is next on the stream, after
\* the first step moved the atoms
C10_Witness ==
    \E i \in Integrators :
        /\ ndone[i] = 1
        /\ stream[i] # <<>>
        /\ Head(stream[i]).op = "update"
        /\ x_t[i] # X0
        /\ li[i].d_du_dx # [e \in Elems |-> 0]

====
